---- MODULE Spec2Model ----
(***************************************************************************)
(* Model of src/hpc_python/unpack_merge_fastq.py: a batch of tar archives  *)
(* is extracted one at a time into a scratch directory, the FASTQ files    *)
(* found there are grouped by sample prefix and read type, the lanes of    *)
(* each (sample, read type) are concatenated into the output directory,    *)
(* and a verification summary is computed from the output directory.       *)
(*                                                                         *)
(* Strings are sequences of one-character strings, paths are sequences of  *)
(* path components, file contents are sequences of bytes.                  *)
(***************************************************************************)
EXTENDS Integers, Sequences, FiniteSets, TLC

(* ---------------------------- bounds -------------------------------- *)

\* at most this many archives are matched by TAR_DIR.glob("*.tar*")
MaxArchives == 2

\* at most this many member files in the whole batch (the three-file
\* scenario of ScenarioMembers comes on top)
MaxFiles == 2

(* ------------------------- string literals -------------------------- *)

ExtFastqGz == <<".","f","a","s","t","q",".","g","z">>
ExtFqGz == <<".","f","q",".","g","z">>
ExtFastq == <<".","f","a","s","t","q">>
ExtFq == <<".","f","q">>

\* the tuple find_fastq_files iterates over, without the leading "*"
FindPatterns == <<ExtFastqGz, ExtFqGz, ExtFastq, ExtFq>>

\* the list group_by_sample iterates over
GroupExts == <<ExtFastqGz, ExtFqGz, ExtFastq, ExtFq>>

Marker == <<"_","E","K","D">>
Suffix1 == <<"_","1">>
Suffix2 == <<"_","2">>
R1 == <<"R","1">>
R2 == <<"R","2">>
Unknown == <<"u","n","k","n","o","w","n">>
SplitR == <<"_","R">>

\* code points of the characters that occur in the modelled names
Ord ==
  "-" :> 45 @@ "." :> 46 @@ "/" :> 47 @@ "0" :> 48 @@ "1" :> 49 @@ "2" :> 50 @@
  "A" :> 65 @@ "D" :> 68 @@ "E" :> 69 @@ "K" :> 75 @@ "L" :> 76 @@
  "R" :> 82 @@ "S" :> 83 @@ "_" :> 95 @@ "a" :> 97 @@ "b" :> 98 @@
  "e" :> 101 @@ "f" :> 102 @@ "g" :> 103 @@ "k" :> 107 @@ "n" :> 110 @@
  "o" :> 111 @@ "q" :> 113 @@ "r" :> 114 @@ "s" :> 115 @@ "t" :> 116 @@
  "u" :> 117 @@ "w" :> 119 @@ "x" :> 120 @@ "y" :> 121 @@ "z" :> 122

(* ------------------------ the input universe ------------------------ *)

\* names of the archives that may lie in TAR_DIR
ArchiveNames ==
  << <<"x",".","t","a","r",".","g","z">>,
     <<"x",".","t","a","r",".","b","z","2">>,
     <<"y",".","t","a","r">> >>

\* member paths (relative to the archive root) an archive may contain
Pool ==
  << << <<"S","1","_","L","0","0","1","_","E","K","D","0","0","1","_","1",".","f","a","s","t","q",".","g","z">> >>,
     << <<"S","1","_","L","0","0","2","_","E","K","D","0","0","1","_","1",".","f","a","s","t","q",".","g","z">> >>,
     << <<"S","1","_","L","0","0","1","_","E","K","D","0","0","1","_","2",".","f","a","s","t","q",".","g","z">> >>,
     << <<"a">>, <<"A","_","E","K","D","_","L","1","_","1",".","f","q",".","g","z">> >>,
     << <<"a","-","b">>, <<"A","_","E","K","D","_","L","2","_","1",".","f","q",".","g","z">> >>,
     << <<"A","_","E","K","D","_","L","1","_","2",".","f","a","s","t","q">> >>,
     << <<"A",".","f","q","_","E","K","D","_","1",".","f","q",".","f","q">> >>,
     << <<"A","_","R","x","_","E","K","D","_","1",".","f","q">> >>,
     << <<"A","_","R","x",".","f","q">> >>,
     << <<"n","o","t","e","s",".","t","x","t">> >> >>

\* content of member k of the archive with tag a (tag 0: left by an earlier
\* run); the bytes identify the file, the lengths differ
Data(a, k) ==
  IF k % 2 = 0 THEN <<16 * a + k, 16 * a + k>> ELSE <<16 * a + k>>

\* the members of the archive of the three-lane scenario: the first three
\* entries of Pool
ScenarioMembers == {k \in 1..Len(Pool) : Pool[k][1][1] = "S"}

(* -------------------------- str operations -------------------------- *)

\* str.endswith
EndsWith(s, suf) ==
  /\ Len(suf) <= Len(s)
  /\ SubSeq(s, Len(s) - Len(suf) + 1, Len(s)) = suf

\* str.startswith
StartsWith(s, pre) ==
  /\ Len(pre) <= Len(s)
  /\ SubSeq(s, 1, Len(pre)) = pre

\* the positions at which pat occurs in s
Occurrences(s, pat) ==
  {i \in 1..(Len(s) - Len(pat) + 1) : SubSeq(s, i, i + Len(pat) - 1) = pat}

\* pat in s
Contains(s, pat) == Occurrences(s, pat) # {}

RECURSIVE ReplaceAll(_, _)
\* s.replace(pat, ""): every non-overlapping occurrence, left to right
ReplaceAll(s, pat) ==
  IF Len(s) < Len(pat) THEN s
  ELSE IF StartsWith(s, pat)
       THEN ReplaceAll(SubSeq(s, Len(pat) + 1, Len(s)), pat)
       ELSE <<Head(s)>> \o ReplaceAll(Tail(s), pat)

\* s.split(pat)[0]
SplitFirst(s, pat) ==
  IF Contains(s, pat)
  THEN LET i == CHOOSE j \in Occurrences(s, pat) :
                  \A k \in Occurrences(s, pat) : j <= k
       IN SubSeq(s, 1, i - 1)
  ELSE s

\* str < str: lexicographic on code points
StrLess(s, t) ==
  \E i \in 1..(Len(t)) :
     /\ \A j \in 1..(i - 1) : j <= Len(s) /\ s[j] = t[j]
     /\ \/ i = Len(s) + 1
        \/ i <= Len(s) /\ Ord[s[i]] < Ord[t[i]]

\* Path < Path: pathlib compares the lists of path components
PathLess(p, q) ==
  \E i \in 1..(Len(q)) :
     /\ \A j \in 1..(i - 1) : j <= Len(p) /\ p[j] = q[j]
     /\ \/ i = Len(p) + 1
        \/ i <= Len(p) /\ StrLess(p[i], q[i])

\* Path.name
PathName(p) == p[Len(p)]

\* Path.stem: the name without its last suffix
Stem(name) ==
  LET dots == {i \in 2..(Len(name) - 1) : name[i] = "."}
  IN IF dots = {} THEN name
     ELSE SubSeq(name, 1, (CHOOSE i \in dots : \A j \in dots : j <= i) - 1)

(* ------------------------- group_by_sample -------------------------- *)

RECURSIVE RemoveExt(_, _)
\* the "Remove extensions" loop, from the i-th entry of GroupExts on
RemoveExt(name, i) ==
  IF i > Len(GroupExts) THEN name
  ELSE IF EndsWith(name, GroupExts[i]) THEN ReplaceAll(name, GroupExts[i])
       ELSE RemoveExt(name, i + 1)

\* read_type of a file name
ReadType(name) ==
  LET n == RemoveExt(name, 1)
  IN IF EndsWith(n, Suffix1) THEN R1
     ELSE IF EndsWith(n, Suffix2) THEN R2
     ELSE Unknown

\* Prefix with the sample cut at the first "_" instead of at the marker
PrefixAtUnderscore(name) ==
  LET n == RemoveExt(name, 1)
      m == IF EndsWith(n, Suffix1) \/ EndsWith(n, Suffix2)
           THEN SubSeq(n, 1, Len(n) - 2)
           ELSE n
  IN SplitFirst(m, <<"_">>)

\* prefix (the sample) of a file name
Prefix(name) ==
  LET n == RemoveExt(name, 1)
      m == IF EndsWith(n, Suffix1) \/ EndsWith(n, Suffix2)
           THEN SubSeq(n, 1, Len(n) - 2)
           ELSE n
  IN IF Contains(m, Marker) THEN SplitFirst(m, Marker) ELSE m

\* reads.setdefault(read_type, []).append(f) on an insertion-ordered dict,
\* kept as a sequence of [read_type, files] items
ReadsAdd(reads, rt, f) ==
  IF \E i \in 1..Len(reads) : reads[i].read_type = rt
  THEN LET i == CHOOSE j \in 1..Len(reads) : reads[j].read_type = rt
       IN [reads EXCEPT ![i].files = Append(@, f)]
  ELSE Append(reads, [read_type |-> rt, files |-> <<f>>])

\* sample_dict.setdefault(prefix, {}).setdefault(read_type, []).append(f),
\* sample_dict kept as a sequence of [sample, reads] items
DictAdd(d, prefix, rt, f) ==
  IF \E i \in 1..Len(d) : d[i].sample = prefix
  THEN LET i == CHOOSE j \in 1..Len(d) : d[j].sample = prefix
       IN [d EXCEPT ![i].reads = ReadsAdd(@, rt, f)]
  ELSE Append(d, [sample |-> prefix,
                  reads |-> <<[read_type |-> rt, files |-> <<f>>]>>])

RECURSIVE GroupFirst(_, _)
\* sample_dict after the loop has handled the first n files
GroupFirst(files, n) ==
  IF n = 0 THEN <<>>
  ELSE DictAdd(GroupFirst(files, n - 1),
               Prefix(PathName(files[n])), ReadType(PathName(files[n])),
               files[n])

group_by_sample(files) == GroupFirst(files, Len(files))

(* --------------------------- merge_lanes ---------------------------- *)

RECURSIVE Insert(_, _)
\* p put into the ascending sequence s
Insert(s, p) ==
  IF s = <<>> THEN <<p>>
  ELSE IF PathLess(p, Head(s)) THEN <<p>> \o s
       ELSE <<Head(s)>> \o Insert(Tail(s), p)

RECURSIVE SortedFirst(_, _)
SortedFirst(files, n) ==
  IF n = 0 THEN <<>> ELSE Insert(SortedFirst(files, n - 1), files[n])

\* sorted left out: the lanes in the order the locator found them
Unsorted(files) == files

\* sorted(file_list)
sorted(files) == SortedFirst(files, Len(files))

RECURSIVE CopyAll(_, _, _)
\* the bytes copied to wfh from the first n files of the sequence
CopyAll(fs, files, n) ==
  IF n = 0 THEN <<>> ELSE CopyAll(fs, files, n - 1) \o fs[files[n]]

\* MergedName without the read type in the file name
MergedNameNoType(sample, rt) == sample \o ExtFastqGz

\* output_dir / f"{sample_name}_{read_type}.fastq.gz"
MergedName(sample, rt) == sample \o <<"_">> \o rt \o ExtFastqGz

\* WriteMerged with the destination opened in append mode
WriteMergedAppend(o, fs, sample, item) ==
  LET name == MergedName(sample, item.read_type)
      bytes == CopyAll(fs, sorted(item.files), Len(item.files))
  IN [n \in DOMAIN o \cup {name} |->
        IF n = name
        THEN (IF name \in DOMAIN o THEN o[name] ELSE <<>>) \o bytes
        ELSE o[n]]

\* open(merged_file, "wb") and the copy loop, for one read type
WriteMerged(o, fs, sample, item) ==
  LET name == MergedName(sample, item.read_type)
      bytes == CopyAll(fs, sorted(item.files), Len(item.files))
  IN [n \in DOMAIN o \cup {name} |-> IF n = name THEN bytes ELSE o[n]]

RECURSIVE MergeFirst(_, _, _, _, _)
\* the output directory after the first n items of reads_dict
MergeFirst(o, fs, sample, reads, n) ==
  IF n = 0 THEN o
  ELSE WriteMerged(MergeFirst(o, fs, sample, reads, n - 1), fs, sample, reads[n])

merge_lanes(o, fs, sample, reads) == MergeFirst(o, fs, sample, reads, Len(reads))

(* ---------------------- verification summary ------------------------ *)

\* MergedFiles with the glob narrowed to the R1 and R2 outputs
MergedFilesPaired(o) ==
  {n \in DOMAIN o : \/ EndsWith(n, <<"_">> \o R1 \o ExtFastqGz)
                    \/ EndsWith(n, <<"_">> \o R2 \o ExtFastqGz)}

\* out_dir.glob("*.fastq.gz")
MergedFiles(o) == {n \in DOMAIN o : EndsWith(n, ExtFastqGz)}

\* SampleCounts with every counter started one too low
SampleCountsFromBelow(o) ==
  LET ids == {SplitFirst(n, SplitR) : n \in MergedFiles(o)}
  IN [k \in ids |->
        Cardinality({n \in MergedFiles(o) : SplitFirst(n, SplitR) = k}) - 1]

\* sample_counts after the counting loop: split("_R")[0] of every name
SampleCounts(o) ==
  LET ids == {SplitFirst(n, SplitR) : n \in MergedFiles(o)}
  IN [k \in ids |->
        Cardinality({n \in MergedFiles(o) : SplitFirst(n, SplitR) = k})]

\* the four lines printed: total_samples, len(merged_files), perfect, incomplete
VerificationSummary(o) ==
  LET counts == SampleCounts(o)
      total_samples == Cardinality(DOMAIN counts)
      perfect == Cardinality({k \in DOMAIN counts : counts[k] = 2})
  IN [total_samples |-> total_samples,
      total_files |-> Cardinality(MergedFiles(o)),
      perfect |-> perfect,
      incomplete |-> total_samples - perfect]

(* ------------------------------ state ------------------------------ *)

VARIABLES
  tars,         \* TAR_DIR_PATH.glob("*.tar*"), in the order the glob yields:
                \* a sequence of [arch, members], arch an index of ArchiveNames,
                \* members the indices of Pool the archive contains
  scratch,      \* the files under EXTRACT_DIR: path |-> bytes, the first
                \* component of a path is the batch directory
  out,          \* the files in OUTPUT_DIR: name |-> bytes
  pc,           \* position of the script
  i,            \* number of archives the loop of main has taken
  fastq_files,  \* main's local fastq_files
  grouped,      \* main's local grouped
  s,            \* number of items of grouped the merge loop has handled
  exc,          \* the uncaught exception that ended the script, or "none"
  sample_counts,\* the dict sample_counts of the __main__ block
  report        \* the verification summary printed: <<>> or <<summary>>

vars ==
  <<tars, scratch, out, pc, i, fastq_files, grouped, s, exc, sample_counts, report>>

\* the sets of at most k elements of S
RECURSIVE SubsetsUpTo(_, _)
SubsetsUpTo(S, k) ==
  IF k = 0 THEN {{}}
  ELSE LET r == SubsetsUpTo(S, k - 1)
       IN r \cup {x \cup {e} : x \in r, e \in S}

\* the orders in which a set can be yielded
Orders(S) ==
  {o \in [1..Cardinality(S) -> S] : \A a, b \in 1..Cardinality(S) : o[a] = o[b] => a = b}

\* batch_extract_dir = Path(EXTRACT_DIR) / tar_file.stem, as the component
\* below EXTRACT_DIR
BatchDir(t) == Stem(ArchiveNames[t.arch])

\* the path a member of archive t is extracted to
ExtractedPath(t, k) == <<BatchDir(t)>> \o Pool[k]

\* the scratch directory left by an earlier run: empty, or one stale file
\* (a reverse read of sample A) in the batch directory of the first archive name
PriorScratch ==
  { [p \in {} |-> <<>>],
    [p \in {<<Stem(ArchiveNames[1])>> \o Pool[6]} |-> Data(0, 6)] }

Init ==
  /\ \E n \in 0..MaxArchives :
       \E order \in {o \in [1..n -> 1..Len(ArchiveNames)] :
                       \A a, b \in 1..n : o[a] = o[b] => a = b} :
         \E M \in SubsetsUpTo((1..n) \X (1..Len(Pool)), MaxFiles)
                   \cup {{j} \X ScenarioMembers : j \in 1..n} :
           tars = [j \in 1..n |->
                     [arch |-> order[j],
                      members |-> {k \in 1..Len(Pool) : <<j, k>> \in M}]]
  /\ scratch \in PriorScratch
  /\ out = [n \in {} |-> <<>>]
  /\ pc = "for_tar"
  /\ i = 0
  /\ fastq_files = <<>>
  /\ grouped = <<>>
  /\ s = 0
  /\ exc = "none"
  /\ sample_counts = [k \in {} |-> 0]
  /\ report = <<>>

(* ------------------------------- main ------------------------------- *)

\* the merge loop of the current archive has run to its end
ArchiveDone == pc = "merge" /\ s = Len(grouped)

\* for tar_file in TAR_DIR_PATH.glob("*.tar*"): the next archive, or the
\* end of main
ForTar ==
  /\ pc = "for_tar" \/ ArchiveDone
  /\ IF i < Len(tars)
     THEN i' = i + 1 /\ pc' = "extract"
     ELSE i' = i /\ pc' = "verify"
  /\ UNCHANGED <<tars, scratch, out, fastq_files, grouped, s, exc, sample_counts, report>>

\* the scratch directory after the members ks of archive t were written
Extracted(fs, t, ks) ==
  LET new == {ExtractedPath(t, k) : k \in ks}
  IN [p \in DOMAIN fs \cup new |->
        IF p \in new
        THEN Data(t.arch, CHOOSE k \in ks : ExtractedPath(t, k) = p)
        ELSE fs[p]]

\* extract_tar(tar_file, batch_extract_dir)
ExtractTar ==
  /\ pc = "extract"
  /\ scratch' = Extracted(scratch, tars[i], tars[i].members)
  /\ pc' = "find"
  /\ UNCHANGED <<tars, out, i, fastq_files, grouped, s, exc, sample_counts, report>>

\* ExtractFail with the exception caught in the loop: on to the next archive
ExtractFailSkip ==
  /\ pc = "extract"
  /\ \E ks \in SUBSET tars[i].members :
       scratch' = Extracted(scratch, tars[i], ks)
  /\ exc' = "extract"
  /\ pc' = "for_tar"
  /\ UNCHANGED <<tars, out, i, fastq_files, grouped, s, sample_counts, report>>

\* extract_tar raises (tarfile.open or extractall on an unreadable or corrupt
\* archive): nothing in main catches it
ExtractFail ==
  /\ pc = "extract"
  /\ \E ks \in SUBSET tars[i].members :
       scratch' = Extracted(scratch, tars[i], ks)
  /\ exc' = "extract"
  /\ pc' = "crashed"
  /\ UNCHANGED <<tars, out, i, fastq_files, grouped, s, sample_counts, report>>

\* RGlob with the first pattern written "*": it yields every file below base
RGlobAll(fs, base, ext) ==
  {p \in DOMAIN fs :
     p[1] = base /\ (ext = FindPatterns[1] \/ EndsWith(PathName(p), ext))}

\* Path(base_dir).rglob("*" + ext)
RGlob(fs, base, ext) ==
  {p \in DOMAIN fs : p[1] = base /\ EndsWith(PathName(p), ext)}

\* find_fastq_files(batch_extract_dir): one rglob per pattern, each in the
\* order the file system yields
FindFastqFiles ==
  /\ pc = "find"
  /\ \E o1 \in Orders(RGlob(scratch, BatchDir(tars[i]), FindPatterns[1])) :
     \E o2 \in Orders(RGlob(scratch, BatchDir(tars[i]), FindPatterns[2])) :
     \E o3 \in Orders(RGlob(scratch, BatchDir(tars[i]), FindPatterns[3])) :
     \E o4 \in Orders(RGlob(scratch, BatchDir(tars[i]), FindPatterns[4])) :
       fastq_files' = o1 \o o2 \o o3 \o o4
  /\ pc' = "group"
  /\ UNCHANGED <<tars, scratch, out, i, grouped, s, exc, sample_counts, report>>

\* grouped = group_by_sample(fastq_files)
GroupBySample ==
  /\ pc = "group"
  /\ grouped' = group_by_sample(fastq_files)
  /\ s' = 0
  /\ pc' = "merge"
  /\ UNCHANGED <<tars, scratch, out, i, fastq_files, exc, sample_counts, report>>

\* merge_lanes(sample, reads, OUTPUT_DIR) for the next item of grouped
MergeLanes ==
  /\ pc = "merge"
  /\ s < Len(grouped)
  /\ out' = merge_lanes(out, scratch, grouped[s + 1].sample, grouped[s + 1].reads)
  /\ s' = s + 1
  /\ UNCHANGED <<tars, scratch, pc, i, fastq_files, grouped, exc, sample_counts, report>>

\* the output directory when merge_lanes raises in its j-th read type:
\* k = 0, open(merged_file, "wb") raises; k > 0, open(f, "rb") raises for
\* the k-th lane file
MergePartial(o, fs, sample, reads, j, k) ==
  LET before == MergeFirst(o, fs, sample, reads, j - 1)
      name == MergedName(sample, reads[j].read_type)
  IN IF k = 0 THEN before
     ELSE [n \in DOMAIN before \cup {name} |->
             IF n = name
             THEN CopyAll(fs, sorted(reads[j].files), k - 1)
             ELSE before[n]]

\* MergeLanesFail with the exception caught in the loop: on to the next sample
MergeLanesFailSkip ==
  /\ pc = "merge"
  /\ s < Len(grouped)
  /\ \E j \in 1..Len(grouped[s + 1].reads) :
       \E k \in 0..Len(grouped[s + 1].reads[j].files) :
         out' = MergePartial(out, scratch, grouped[s + 1].sample,
                             grouped[s + 1].reads, j, k)
  /\ exc' = "merge"
  /\ s' = s + 1
  /\ UNCHANGED <<tars, scratch, pc, i, fastq_files, grouped, sample_counts, report>>

\* merge_lanes raises an OSError: nothing in merge_lanes or main catches it
MergeLanesFail ==
  /\ pc = "merge"
  /\ s < Len(grouped)
  /\ \E j \in 1..Len(grouped[s + 1].reads) :
       \E k \in 0..Len(grouped[s + 1].reads[j].files) :
         out' = MergePartial(out, scratch, grouped[s + 1].sample,
                             grouped[s + 1].reads, j, k)
  /\ exc' = "merge"
  /\ pc' = "crashed"
  /\ UNCHANGED <<tars, scratch, i, fastq_files, grouped, s, sample_counts, report>>

\* Step 5 of the __main__ block, run after main() has returned
Verify ==
  /\ pc = "verify"
  /\ sample_counts' = SampleCounts(out)
  /\ report' = <<VerificationSummary(out)>>
  /\ pc' = "done"
  /\ UNCHANGED <<tars, scratch, out, i, fastq_files, grouped, s, exc>>

Next ==
  \/ ForTar
  \/ ExtractTar
  \/ ExtractFail
  \/ FindFastqFiles
  \/ GroupBySample
  \/ MergeLanes
  \/ MergeLanesFail
  \/ Verify

Spec == Init /\ [][Next]_vars

TypeOK ==
  /\ pc \in {"for_tar", "extract", "find", "group", "merge", "verify", "done", "crashed"}
  /\ i \in 0..Len(tars)
  /\ s \in 0..Len(grouped)
  /\ exc \in {"none", "extract", "merge"}
  /\ Len(report) <= 1

(* ------------------------- claim vocabulary ------------------------- *)

\* the elements of a sequence
FilesOf(seq) == {seq[n] : n \in 1..Len(seq)}

\* the (sample, read type, file list) entries of a grouping
GroupItems(d) ==
  UNION {{[sample |-> d[a].sample,
           read_type |-> d[a].reads[b].read_type,
           files |-> d[a].reads[b].files] : b \in 1..Len(d[a].reads)}
         : a \in 1..Len(d)}

\* the name ends in one of the recognized read-file suffixes
Recognized(name) == \E e \in 1..Len(FindPatterns) : EndsWith(name, FindPatterns[e])

\* the name minus only its trailing recognized suffix
TrailingStem(name) ==
  LET e == CHOOSE x \in 1..Len(FindPatterns) :
             /\ EndsWith(name, FindPatterns[x])
             /\ \A y \in 1..Len(FindPatterns) :
                  EndsWith(name, FindPatterns[y]) => Len(FindPatterns[y]) <= Len(FindPatterns[x])
  IN SubSeq(name, 1, Len(name) - Len(FindPatterns[e]))

\* t occurs in u as a contiguous block
IsInfix(t, u) == Occurrences(u, t) # {}

RECURSIVE SumLen(_, _)
\* the sum of the byte lengths of the files F in the file system fs
SumLen(fs, F) ==
  IF F = {} THEN 0
  ELSE LET f == CHOOSE x \in F : TRUE
       IN Len(fs[f]) + SumLen(fs, F \ {f})

\* the three files of the scenario, extracted below the batch directory base
ScenarioFile(base, k) == <<base>> \o Pool[k]

\* the locator has just returned exactly the three scenario files
ScenarioFound ==
  /\ pc = "merge"
  /\ Len(fastq_files) = Cardinality(ScenarioMembers)
  /\ FilesOf(fastq_files) = {ScenarioFile(BatchDir(tars[i]), k) : k \in ScenarioMembers}

\* the output files whose name begins with "S"
SOutputs == {n \in DOMAIN out : n[1] = "S"}

S1 == <<"S","1">>
S1L001 == <<"S","1","_","L","0","0","1">>
S1L002 == <<"S","1","_","L","0","0","2">>

\* no batch directory of the batch holds a file with a recognized suffix:
\* every call of find_fastq_files had nothing to find
NothingFound ==
  \A p \in DOMAIN scratch :
     (\E j \in 1..Len(tars) : p[1] = BatchDir(tars[j])) => ~Recognized(PathName(p))

\* no two archives of the batch share a batch directory
DistinctBatchDirs ==
  \A a, b \in 1..Len(tars) : BatchDir(tars[a]) = BatchDir(tars[b]) => a = b

\* o is ascending in the order of sorted()
Ascending(o) == \A a, b \in 1..Len(o) : a < b => PathLess(o[a], o[b])

\* the number of positions of the byte string u that hold the byte x
CountByte(u, x) == Cardinality({n \in 1..Len(u) : u[n] = x})

\* the file name of an output ends in _R1.fastq.gz or _R2.fastq.gz
PairedName(n) ==
  \/ EndsWith(n, <<"_">> \o R1 \o ExtFastqGz)
  \/ EndsWith(n, <<"_">> \o R2 \o ExtFastqGz)

\* the sample_id of an output named {sample_id}_R1.fastq.gz or
\* {sample_id}_R2.fastq.gz
PairedSample(n) == SubSeq(n, 1, Len(n) - Len(<<"_">> \o R1 \o ExtFastqGz))

\* the labels of the four counts the summary prints
CountLabels == {"total_samples", "total_files", "perfect", "incomplete"}

\* the outputs merge_lanes has written for the read type "unknown"
UnknownOutputs(o) == {n \in DOMAIN o : EndsWith(n, <<"_">> \o Unknown \o ExtFastqGz)}

\* the output directory o without the file u
Without(o, u) == [n \in DOMAIN o \ {u} |-> o[n]]

\* the outputs other than u that the summary counts under the same key as u
SameKey(o, u) ==
  {n \in DOMAIN o \ {u} : SplitFirst(n, SplitR) = SplitFirst(u, SplitR)}

RECURSIVE FullPath(_)
\* the path as one string, its components joined by "/" (the leading
\* EXTRACT_DIR, the same for every file, is left out)
FullPath(p) ==
  IF Len(p) = 1 THEN p[1] ELSE p[1] \o <<"/">> \o FullPath(Tail(p))

\* o is ascending in the lexicographic order of the full path strings
StringAscending(o) ==
  \A a, b \in 1..Len(o) : a < b => StrLess(FullPath(o[a]), FullPath(o[b]))

RECURSIVE SumCounts(_, _)
\* the sum of the counts of the given keys
SumCounts(counts, keys) ==
  IF keys = {} THEN 0
  ELSE LET k == CHOOSE x \in keys : TRUE
       IN counts[k] + SumCounts(counts, keys \ {k})

(* ------------------------------ claims ------------------------------ *)

\* C1 (as stated): the three scenario files are grouped under the single
\* sample S1 with R1 = [L001 file, L002 file] and R2 = [L001 file], and the
\* merge writes exactly S1_R1.fastq.gz (both forward lanes) and S1_R2.fastq.gz.
C1_SingleSampleS1 ==
  ScenarioFound =>
    LET b == BatchDir(tars[i])
    IN /\ GroupItems(grouped) =
            {[sample |-> S1, read_type |-> R1,
              files |-> <<ScenarioFile(b, 1), ScenarioFile(b, 2)>>],
             [sample |-> S1, read_type |-> R2, files |-> <<ScenarioFile(b, 3)>>]}
       /\ ArchiveDone =>
            /\ SOutputs = {MergedName(S1, R1), MergedName(S1, R2)}
            /\ out[MergedName(S1, R1)] =
                 scratch[ScenarioFile(b, 1)] \o scratch[ScenarioFile(b, 2)]
            /\ out[MergedName(S1, R2)] = scratch[ScenarioFile(b, 3)]

\* C1 (amended): the three scenario files are grouped under two samples,
\* S1_L001 with R1 = [L001 _1 file] and R2 = [L001 _2 file], and S1_L002 with
\* R1 = [L002 _1 file]; the merge writes exactly S1_L001_R1.fastq.gz,
\* S1_L001_R2.fastq.gz and S1_L002_R1.fastq.gz, each a copy of its one lane.
C1_SamplesPerLane ==
  ScenarioFound =>
    LET b == BatchDir(tars[i])
    IN /\ GroupItems(grouped) =
            {[sample |-> S1L001, read_type |-> R1, files |-> <<ScenarioFile(b, 1)>>],
             [sample |-> S1L001, read_type |-> R2, files |-> <<ScenarioFile(b, 3)>>],
             [sample |-> S1L002, read_type |-> R1, files |-> <<ScenarioFile(b, 2)>>]}
       /\ ArchiveDone =>
            /\ SOutputs = {MergedName(S1L001, R1), MergedName(S1L001, R2),
                           MergedName(S1L002, R1)}
            /\ out[MergedName(S1L001, R1)] = scratch[ScenarioFile(b, 1)]
            /\ out[MergedName(S1L001, R2)] = scratch[ScenarioFile(b, 3)]
            /\ out[MergedName(S1L002, R1)] = scratch[ScenarioFile(b, 2)]

\* C1 witness: the scenario archive has been grouped and merged to its end
C1_Witness == ScenarioFound /\ ArchiveDone /\ exc = "none"

\* C2 (as stated): once the whole batch is processed, every recognized member
\* of every archive of the batch is contained in the output file of its
\* (sample, read type), whichever archive it came from (stated for batches
\* whose archives are extracted into different batch directories).
C2_OutputsAccumulate ==
  (pc = "done" /\ DistinctBatchDirs) =>
    \A j \in 1..Len(tars) : \A k \in tars[j].members :
       LET name == PathName(Pool[k])
           merged == MergedName(Prefix(name), ReadType(name))
       IN Recognized(name) =>
            /\ merged \in DOMAIN out
            /\ IsInfix(Data(tars[j].arch, k), out[merged])

\* C3 (as stated): a grouped file whose name contains the marker "_EKD" is
\* filed under the part of its name before the first "_EKD".
C3_SampleBeforeMarker ==
  pc = "merge" =>
    \A it \in GroupItems(grouped) : \A f \in FilesOf(it.files) :
       (Recognized(PathName(f)) /\ Contains(PathName(f), Marker)) =>
          it.sample = SplitFirst(PathName(f), Marker)

\* C4 (as stated): a grouped file is filed under R1 if its name minus only
\* the trailing suffix ends in "_1", under R2 if it ends in "_2", and under
\* unknown otherwise.
C4_DirectionFromTrailingStem ==
  pc = "merge" =>
    \A it \in GroupItems(grouped) : \A f \in FilesOf(it.files) :
       LET stem == TrailingStem(PathName(f))
       IN it.read_type = IF EndsWith(stem, Suffix1) THEN R1
                         ELSE IF EndsWith(stem, Suffix2) THEN R2
                         ELSE Unknown

\* C5: while an archive is merged, the output of every (sample, read type)
\* already handled has a byte length equal to the sum of the lengths of its
\* lane files, and holds the lanes' bytes in ascending path order, each lane
\* file once.
C5_RawConcatenation ==
  (pc = "merge" /\ exc = "none") =>
    \A a \in 1..s : \A b \in 1..Len(grouped[a].reads) :
       LET lanes == FilesOf(grouped[a].reads[b].files)
           merged == out[MergedName(grouped[a].sample, grouped[a].reads[b].read_type)]
       IN /\ Len(merged) = SumLen(scratch, lanes)
          /\ \A f \in lanes : CountByte(merged, scratch[f][1]) = Len(scratch[f])
          /\ \E o \in Orders(lanes) :
               /\ Ascending(o)
               /\ merged = CopyAll(scratch, o, Len(o))

\* C5 witness: a pair with two lane files, found in descending path order,
\* has been merged
C5_Witness ==
  /\ pc = "merge"
  /\ exc = "none"
  /\ \E a \in 1..s : \E b \in 1..Len(grouped[a].reads) :
       /\ Len(grouped[a].reads[b].files) = 2
       /\ PathLess(grouped[a].reads[b].files[2], grouped[a].reads[b].files[1])

C8_SummaryCounts ==
  (pc = "done" /\ \A n \in DOMAIN out : PairedName(n)) =>
    LET ids == {PairedSample(n) : n \in DOMAIN out}
        both == {k \in ids : /\ MergedName(k, R1) \in DOMAIN out
                             /\ MergedName(k, R2) \in DOMAIN out}
    IN report[1] = [total_samples |-> Cardinality(ids),
                    total_files |-> Cardinality(DOMAIN out),
                    perfect |-> Cardinality(both),
                    incomplete |-> Cardinality(ids \ both)]

\* C9 (as stated): a sample the summary counts as complete has both its R1
\* and its R2 output in the output directory.
C9_CompleteNeedsBoth ==
  pc = "done" =>
    \A k \in DOMAIN sample_counts :
       sample_counts[k] = 2 =>
          /\ MergedName(k, R1) \in DOMAIN out
          /\ MergedName(k, R2) \in DOMAIN out

\* C10 (as stated): when the locator finds no read file, the grouping is
\* empty, nothing is written, the four counts are zero and the report carries
\* a "no outputs" indicator besides the four counts.
C10_NoOutputsFlag ==
  /\ (pc = "merge" /\ fastq_files = <<>>) => grouped = <<>>
  /\ (pc = "done" /\ NothingFound) =>
       /\ DOMAIN out = {}
       /\ \A l \in CountLabels : report[1][l] = 0
       /\ DOMAIN report[1] # CountLabels

\* C10 (amended): when the locator finds no read file, the grouping is empty,
\* nothing is written and the report consists of the four counts, all zero,
\* with no separate "no outputs" indicator.
C10_AllZeroNoFlag ==
  /\ (pc = "merge" /\ fastq_files = <<>>) => grouped = <<>>
  /\ (pc = "done" /\ NothingFound) =>
       /\ DOMAIN out = {}
       /\ DOMAIN report[1] = CountLabels
       /\ \A l \in CountLabels : report[1][l] = 0

\* C10 witness: an archive with a member that is no read file was processed
C10_Witness ==
  /\ pc = "done"
  /\ NothingFound
  /\ \E j \in 1..Len(tars) : tars[j].members # {}

\* C11 (as stated): an Unknown-direction output is invisible to the summary:
\* the four counts are those of the output directory without it.
C11_UnknownInvisible ==
  pc = "done" =>
    \A u \in UnknownOutputs(out) : report[1] = VerificationSummary(Without(out, u))

\* C11 (amended): an Unknown-direction output is counted by the summary:
\* against the output directory without it, total files is one higher; when
\* no other output has its key split("_R")[0], unique samples and incomplete
\* are one higher and complete is the same; otherwise unique samples is the
\* same and the file count of that key is one higher.
C11_UnknownCounted ==
  pc = "done" =>
    \A u \in UnknownOutputs(out) :
       LET before == VerificationSummary(Without(out, u))
           others == SameKey(out, u)
       IN /\ report[1].total_files = before.total_files + 1
          /\ sample_counts[SplitFirst(u, SplitR)] = Cardinality(others) + 1
          /\ others = {} =>
               /\ report[1].total_samples = before.total_samples + 1
               /\ report[1].incomplete = before.incomplete + 1
               /\ report[1].perfect = before.perfect
          /\ others # {} => report[1].total_samples = before.total_samples

\* C11 witness: the summary was printed for an output directory with an
\* Unknown-direction output that shares its key with another output
C11_Witness ==
  /\ pc = "done"
  /\ \E u \in UnknownOutputs(out) : SameKey(out, u) # {}

\* C12 (as stated): the lanes of every (sample, read type) already handled
\* are concatenated in the ascending lexicographic order of their full path
\* strings.
C12_StringOrder ==
  (pc = "merge" /\ exc = "none") =>
    \A a \in 1..s : \A b \in 1..Len(grouped[a].reads) :
       \E o \in Orders(FilesOf(grouped[a].reads[b].files)) :
          /\ StringAscending(o)
          /\ out[MergedName(grouped[a].sample, grouped[a].reads[b].read_type)]
               = CopyAll(scratch, o, Len(o))

\* C12 (amended): the lanes of every (sample, read type) already handled are
\* concatenated in the ascending order of their paths compared component by
\* component, and every order in which the locator can find the same lanes
\* gives that same order.
C12_ComponentOrder ==
  (pc = "merge" /\ exc = "none") =>
    \A a \in 1..s : \A b \in 1..Len(grouped[a].reads) :
       \E o \in Orders(FilesOf(grouped[a].reads[b].files)) :
          /\ Ascending(o)
          /\ out[MergedName(grouped[a].sample, grouped[a].reads[b].read_type)]
               = CopyAll(scratch, o, Len(o))
          /\ \A d \in Orders(FilesOf(grouped[a].reads[b].files)) : sorted(d) = o

\* C12 witness: two lanes of one pair have been merged whose component order
\* is the reverse of their string order, found in descending component order
C12_Witness ==
  /\ pc = "merge"
  /\ exc = "none"
  /\ \E a \in 1..s : \E b \in 1..Len(grouped[a].reads) :
       LET files == grouped[a].reads[b].files
       IN /\ Len(files) = 2
          /\ PathLess(files[2], files[1])
          /\ StrLess(FullPath(files[1]), FullPath(files[2]))

\* C13: in one archive's merge phase, two distinct (sample, read type) keys
\* never have the same output path, so every output path of the phase is
\* written by exactly one key.
C13_OneWriterPerOutput ==
  pc = "merge" =>
    /\ \A a1, a2 \in 1..Len(grouped) :
         \A b1 \in 1..Len(grouped[a1].reads) : \A b2 \in 1..Len(grouped[a2].reads) :
            <<a1, b1>> # <<a2, b2>> =>
              /\ <<grouped[a1].sample, grouped[a1].reads[b1].read_type>>
                   # <<grouped[a2].sample, grouped[a2].reads[b2].read_type>>
              /\ MergedName(grouped[a1].sample, grouped[a1].reads[b1].read_type)
                   # MergedName(grouped[a2].sample, grouped[a2].reads[b2].read_type)
    /\ \A x \in GroupItems(grouped) :
         Cardinality({y \in GroupItems(grouped) :
                        MergedName(y.sample, y.read_type)
                          = MergedName(x.sample, x.read_type)}) = 1

\* C13 witness: an archive's merge phase has finished for a sample that has
\* two read types, one of them the unknown fallback
C13_Witness ==
  /\ pc = "merge"
  /\ exc = "none"
  /\ s = Len(grouped)
  /\ \E x, y \in GroupItems(grouped) :
       /\ x.sample = y.sample
       /\ x.read_type = R1
       /\ y.read_type = Unknown
       /\ {MergedName(x.sample, x.read_type), MergedName(y.sample, y.read_type)}
            \subseteq DOMAIN out

\* C14: a merge_lanes call that completes leaves in each of its destinations
\* exactly the concatenation of that call's lane files, whatever the
\* destination held before, and making the same call again changes nothing.
C14_Overwrites ==
  [][(pc = "merge" /\ pc' = "merge" /\ s' = s + 1) =>
       LET sample == grouped[s + 1].sample
           reads == grouped[s + 1].reads
       IN /\ \A b \in 1..Len(reads) :
               out'[MergedName(sample, reads[b].read_type)]
                 = CopyAll(scratch, sorted(reads[b].files), Len(reads[b].files))
          /\ merge_lanes(out', scratch, sample, reads) = out'
          /\ \A n \in DOMAIN out :
               (\A b \in 1..Len(reads) : n # MergedName(sample, reads[b].read_type))
                 => out'[n] = out[n]]_vars

\* C14 witness: merge_lanes has completed for a lane file whose destination
\* an earlier archive of the batch had already written from its own copy of
\* that member, and the destination holds none of the earlier bytes
C14_Witness ==
  /\ pc = "merge"
  /\ exc = "none"
  /\ s >= 1
  /\ \E j \in 1..(i - 1) : \E k \in tars[j].members \cap tars[i].members :
       /\ Recognized(PathName(Pool[k]))
       /\ BatchDir(tars[j]) # BatchDir(tars[i])
       /\ \E x \in GroupItems(SubSeq(grouped, 1, s)) :
            /\ ExtractedPath(tars[i], k) \in FilesOf(x.files)
            /\ CountByte(out[MergedName(x.sample, x.read_type)],
                         Data(tars[j].arch, k)[1]) = 0

\* C15 (as stated): the read files located for an archive, and the lane files
\* grouped and merged for it, are all members of that archive.
C15_OnlyOwnMembers ==
  pc \in {"group", "merge"} =>
    LET own == {ExtractedPath(tars[i], k) : k \in tars[i].members}
    IN /\ FilesOf(fastq_files) \subseteq own
       /\ pc = "merge" =>
            \A x \in GroupItems(grouped) : FilesOf(x.files) \subseteq own

\* C16: in every verification summary, complete + incomplete is the number
\* of unique samples, the per-sample file counts sum to the total number of
\* output files, and every counted sample has a count of at least 1.
C16_SummaryConsistent ==
  pc = "done" =>
    /\ report[1].perfect + report[1].incomplete = report[1].total_samples
    /\ report[1].total_samples = Cardinality(DOMAIN sample_counts)
    /\ report[1].perfect >= 0
    /\ report[1].incomplete >= 0
    /\ SumCounts(sample_counts, DOMAIN sample_counts) = report[1].total_files
    /\ \A k \in DOMAIN sample_counts : sample_counts[k] >= 1

\* C16 witness: a summary over a complete sample and an incomplete one
C16_Witness ==
  /\ pc = "done"
  /\ report[1].total_files = 3
  /\ \E k1, k2 \in DOMAIN sample_counts :
       /\ sample_counts[k1] = 2
       /\ sample_counts[k2] = 1

====
